---- MODULE Spec2Model ----
(***************************************************************************)
(* Environment assembly of spack-stack: StackEnv (stack_env.py) and        *)
(* StackContainer (container_env.py).  The filesystem, the two objects,    *)
(* the position inside StackEnv.write() and the state of the Spack         *)
(* configuration library are the state; one action per constructor and per *)
(* statement group of write().                                             *)
(***************************************************************************)
EXTENDS Integers, Sequences, FiniteSets, TLC

VARIABLES
    fs,          \* environment directories on disk: path -> contents
    senv,        \* the object the caller holds: a StackEnv, a StackContainer or NoObj
    pc,          \* position inside StackEnv.write()
    err,         \* the exception the last call raised ("none" when it returned)
    last,        \* the last call made and the identifier it was given
    active,      \* the directory of the active environment (NoEnv when none)
    cfg,         \* the env scope of spack.config: section name -> data
    orig,        \* original_sections, the local of StackEnv.write()
    writes,      \* how often the running write() has written spack.yaml
    reading,     \* the file StackContainer.write() is reading: "app_env" or "base_packages"
    text,        \* the characters of that file
    filedata,    \* filedata, the local of StackContainer.write()
    stage        \* position inside the reading of the file

objvars == <<fs, senv, pc, err, last, active, cfg, orig, writes>>
readvars == <<reading, text, filedata, stage>>
vars == <<fs, senv, pc, err, last, active, cfg, orig, writes, reading, text, filedata, stage>>

None == "None"
NoEnv == <<>>

(***************************************************************************)
(* YAML documents: a tagged tree of scalars, sequences and mappings.       *)
(***************************************************************************)
Scalar(x) == [t |-> "s", v |-> x]
List(s) == [t |-> "l", v |-> s]
Map(f) == [t |-> "m", v |-> f]
EmptyMap == Map(<<>>)

IsMap(d) == d.t = "m"
Has(d, k) == d.t = "m" /\ k \in DOMAIN d.v
Range(s) == {s[i] : i \in DOMAIN s}

\* d with key k bound to x (d[k] = x)
Put(d, k, x) == Map([j \in DOMAIN d.v \cup {k} |-> IF j = k THEN x ELSE d.v[j]])

\* Python truthiness of a loaded YAML value
Truthy(d) ==
    IF d.t = "m" THEN DOMAIN d.v # {}
    ELSE IF d.t = "l" THEN Len(d.v) > 0
    ELSE d.v \notin {None, "", "false"}

\* value of d at a path of keys; EmptyMap when the path leaves the document
RECURSIVE Lookup(_, _)
Lookup(d, path) ==
    IF path = <<>> THEN d
    ELSE IF Has(d, Head(path)) THEN Lookup(d.v[Head(path)], Tail(path))
    ELSE EmptyMap

RECURSIVE Defines(_, _)
Defines(d, path) ==
    IF path = <<>> THEN TRUE
    ELSE Has(d, Head(path)) /\ Defines(d.v[Head(path)], Tail(path))

\* spack.config.merge_yaml(dest, source): source wins on a leaf conflict,
\* two lists are combined (source first), two mappings are merged by key
RECURSIVE merge_yaml(_, _)
merge_yaml(dest, source) ==
    IF dest.t = "l" /\ source.t = "l"
    THEN List(source.v \o SelectSeq(dest.v, LAMBDA x : x \notin Range(source.v)))
    ELSE IF dest.t = "m" /\ source.t = "m"
    THEN Map([k \in DOMAIN dest.v \cup DOMAIN source.v |->
                IF k \in DOMAIN dest.v /\ k \in DOMAIN source.v
                THEN merge_yaml(dest.v[k], source.v[k])
                ELSE IF k \in DOMAIN source.v THEN source.v[k] ELSE dest.v[k]])
    ELSE source

(***************************************************************************)
(* The directories the module reads: templates, sites, common includes,    *)
(* container definitions, and a few absolute paths.                        *)
(***************************************************************************)
KnownTemplates == {"app"}                 \* sub-directories of template_path
KnownSites == {"s1"}                      \* sub-directories of site_path
KnownContainers == {"ctr", "bare"}        \* <name>.yaml files of container_path
AbsFiles == {"/t/spack.yaml", "/c.yaml", "/pins.yaml", "/pins2.yaml"}
AbsDirs == {"/t"}
AbsMissing == {"/missing"}

\* os.path.isabs
IsAbs(p) == p \in AbsFiles \cup AbsDirs \cup AbsMissing

\* os.path.exists(os.path.join(template_path, t)); join returns t when t is absolute
ExistsUnderTemplates(t) == t \in KnownTemplates \cup AbsFiles \cup AbsDirs

\* os.path.exists(os.path.join(container_path, c + '.yaml'))
ExistsUnderContainers(c) == c \in KnownContainers

\* default_manifest_yaml
default_manifest_yaml == Map("spack" :> Map("view" :> Scalar("false")))

\* template_path/app/spack.yaml: sets packages:all:compiler and two pins
AppYaml ==
    Map("spack" :> Map(
        "specs" :> List(<<"ufs-env">>) @@
        "packages" :> Map(
            "all" :> Map("compiler" :> List(<<"gcc">>)) @@
            "hdf5" :> Map("version" :> List(<<"1.12">>) @@ "variants" :> Scalar("+mpi")) @@
            "zlib" :> Map("variants" :> Scalar("+pic")))))

\* /t/spack.yaml: sets packages:all, but neither its compiler nor its providers
AbsYaml ==
    Map("spack" :> Map(
        "specs" :> List(<<"jedi-env">>) @@
        "packages" :> Map("all" :> Map("target" :> List(<<"x86_64">>)))))

\* container_path/ctr.yaml: labels, specs and packages of its own
CtrYaml ==
    Map("spack" :> Map(
        "container" :> Map("format" :> Scalar("docker") @@
                           "labels" :> Map("app" :> Scalar("base"))) @@
        "specs" :> List(<<"base-env">>) @@
        "packages" :> Map(
            "all" :> Map("compiler" :> List(<<"clang">>)) @@
            "hdf5" :> Map("variants" :> Scalar("~mpi")) @@
            "cmake" :> Map("version" :> List(<<"3.20">>)))))

\* /c.yaml: a container document without packages, specs or an app label
CYaml ==
    Map("spack" :> Map(
        "container" :> Map("format" :> Scalar("singularity") @@ "labels" :> EmptyMap)))

\* container_path/bare.yaml: no container: section at all
BareYaml == Map("spack" :> Map("specs" :> List(<<"base-env">>)))

\* /pins.yaml and /pins2.yaml: package-pin documents
PinsYaml ==
    Map("packages" :> Map(
        "hdf5" :> Map("version" :> List(<<"1.10">>) @@ "variants" :> Scalar("+hl")) @@
        "zlib" :> Map("variants" :> Scalar("~pic") @@ "version" :> List(<<"1.2">>)) @@
        "cmake" :> Map("version" :> List(<<"3.22">>)) @@
        "netcdf" :> Map("variants" :> Scalar("+dap"))))

\* (/pins2.yaml writes its last key as "mpich::", which loads as the key "mpich:")
Pins2Yaml ==
    Map("packages" :> Map(
        "all" :> Map("compiler" :> List(<<"intel">>)) @@
        "hdf5" :> Map("variants" :> List(<<"+fortran">>)) @@
        "mpich:" :> Map("buildable" :> Scalar("false"))))

\* os.path.join of a path (a sequence of components) and one more component
Join(path, x) == IF IsAbs(x) THEN <<x>> ELSE Append(path, x)

\* open(path, 'r') followed by syaml.load_config: [err, doc]
Loaded(d) == [err |-> "none", doc |-> d]
Raised(e) == [err |-> e, doc |-> EmptyMap]

ReadYaml(path) ==
    IF path \in {<<"/t/spack.yaml">>, <<"/t", "spack.yaml">>} THEN Loaded(AbsYaml)
    ELSE IF path = <<"template_path", "app", "spack.yaml">> THEN Loaded(AppYaml)
    ELSE IF path = <<"container_path", "ctr", ".yaml">> THEN Loaded(CtrYaml)
    ELSE IF path = <<"container_path", "bare", ".yaml">> THEN Loaded(BareYaml)
    ELSE IF path = <<"/c.yaml">> THEN Loaded(CYaml)
    ELSE IF path = <<"/pins.yaml">> THEN Loaded(PinsYaml)
    ELSE IF path = <<"/pins2.yaml">> THEN Loaded(Pins2Yaml)
    ELSE IF path \in {<<"/t">>, <<"template_path", "app">>} THEN Raised("IsADirectoryError")
    ELSE IF Len(path) > 1 /\ path[1] \in AbsFiles THEN Raised("NotADirectoryError")
    ELSE Raised("FileNotFoundError")

(***************************************************************************)
(* StackEnv                                                                *)
(***************************************************************************)
NoObj == [live |-> FALSE, class |-> "none"]

TemplateArgs == {None, "app", "bogus", "/t/spack.yaml", "/t", "/missing"}
SiteArgs == {None, "none", "s1", "nosuch"}
CompilerArgs == {None, "intel"}
MpiArgs == {None, "openmpi"}
BasePackagesArgs == {None, "/pins.yaml", "/missing"}
PrefixArgs == {None, "/opt"}
NameArgs == {None, "n1"}
DirArgs == {"envs"}

\* StackEnv.__init__, the template part: [err, doc, path]
LoadTemplate(template) ==
    IF template \in {None, ""}
    THEN [err |-> "none", doc |-> default_manifest_yaml, path |-> <<>>]
    ELSE IF IsAbs(template)
    THEN [err |-> ReadYaml(<<template>>).err, doc |-> ReadYaml(<<template>>).doc,
          path |-> <<template>>]
    ELSE IF ExistsUnderTemplates(template)
    THEN LET dir == Join(<<"template_path">>, template)
             f == ReadYaml(Join(dir, "spack.yaml"))
         IN  [err |-> f.err, doc |-> f.doc, path |-> dir]
    ELSE [err |-> "TemplateDoesNotExist", doc |-> EmptyMap, path |-> <<>>]

\* '{}.{}'.format(a, b), kept as the pair of its arguments
Format(a, b) == <<a, b>>

\* StackEnv.__init__, the rest of the fields
NewStackEnv(kw, t) ==
    [live |-> TRUE,
     class |-> "StackEnv",
     dir |-> kw.dir,
     template |-> kw.template,
     name |-> IF kw.name \in {None, ""}
              THEN Format(kw.template, IF kw.site = "none" THEN None ELSE kw.site)
              ELSE <<kw.name>>,
     includes |-> <<>>,
     env_yaml |-> t.doc,
     template_path |-> t.path,
     site |-> IF kw.site = "none" THEN None ELSE kw.site,
     compiler |-> kw.compiler,
     mpi |-> kw.mpi,
     base_packages |-> kw.base_packages,
     install_prefix |-> kw.install_prefix]

\* the keyword arguments tried.  Options that a run never gets to read (the
\* constructor, the site step or the base-packages copy fails first) are left
\* unset; the install prefix comes with the base-packages file and without
\* an mpi option, and a name is left out for one template and site.
EnvKwargs ==
    {kw \in [dir : DirArgs, template : TemplateArgs, name : NameArgs, site : SiteArgs,
             compiler : CompilerArgs, mpi : MpiArgs,
             base_packages : BasePackagesArgs, install_prefix : PrefixArgs] :
        /\ (kw.install_prefix = "/opt") <=> (kw.base_packages = "/pins.yaml")
        /\ kw.template \in {"bogus", "/t", "/missing"} => kw.site = None
        /\ kw.site # "s1" => kw.base_packages = None
        /\ (kw.site # "s1" \/ kw.base_packages = "/missing" \/ kw.name = None)
              => kw.compiler = None /\ kw.mpi = None
        /\ kw.base_packages = "/missing" => kw.template = None
        /\ kw.base_packages = "/pins.yaml" => kw.mpi = None
        /\ kw.name = None
              => kw.template = "app" /\ kw.site = "s1" /\ kw.base_packages = None}

\* between calls: nothing is running
Quiet == pc \in {"idle", "done", "failed"}

StackEnvInit ==
    /\ Quiet
    /\ \E kw \in EnvKwargs :
        LET t == LoadTemplate(kw.template) IN
        /\ last' = [op |-> "StackEnv", id |-> kw.template, container |-> None]
        /\ err' = t.err
        /\ senv' = IF t.err = "none" THEN NewStackEnv(kw, t) ELSE NoObj
    /\ pc' = "idle"
    /\ UNCHANGED <<fs, active, cfg, orig, writes>>
    /\ UNCHANGED readvars

\* env_dir is <dir>/<name>
env_dir(o) == <<o.dir>> \o o.name

\* the guard left out: write() goes on into an existing directory
AlreadyExistsNever(o) == FALSE

\* os.path.exists(env_dir), the guard of StackEnv.write()
AlreadyExists(o) == env_dir(o) \in DOMAIN fs

\* files of an environment directory
NoFile == [kind |-> "none", doc |-> EmptyMap, header |-> <<>>]
EmptyFile == [kind |-> "empty", doc |-> EmptyMap, header |-> <<>>]
YamlFile(d, h) == [kind |-> "yaml", doc |-> d, header |-> h]

\* os.makedirs(env_dir, exist_ok=True)
MakeDirs(f, d) ==
    IF d \in DOMAIN f THEN f
    ELSE [p \in DOMAIN f \cup {d} |->
            IF p = d
            THEN [site |-> FALSE, common |-> FALSE, pkgs |-> FALSE, manifest |-> NoFile]
            ELSE f[p]]

\* StackEnv.write(), up to the creation of the environment directory
WriteBegin ==
    /\ Quiet
    /\ senv.class = "StackEnv"
    /\ last' = [op |-> "StackEnv.write", id |-> senv.template, container |-> None]
    /\ writes' = 0
    /\ IF AlreadyExists(senv)
       THEN /\ err' = "AlreadyExists"
            /\ pc' = "failed"
            /\ fs' = fs
       ELSE /\ err' = "none"
            /\ pc' = "created"
            /\ fs' = MakeDirs(fs, env_dir(senv))
    /\ UNCHANGED <<senv, active, cfg, orig>>
    /\ UNCHANGED readvars

\* an exception leaves write(): nothing is undone
Raise(e) ==
    /\ err' = e
    /\ pc' = "failed"

\* fs with one field of the environment directory d replaced
WithSite(f, d) == [f EXCEPT ![d].site = TRUE]
WithCommon(f, d) == [f EXCEPT ![d].common = TRUE]
WithPkgs(f, d) == [f EXCEPT ![d].pkgs = TRUE]
WithManifest(f, d, file) == [f EXCEPT ![d].manifest = file]

\* _copy_site_includes() removing the environment directory when it fails
CopySiteRollingBack ==
    /\ pc = "created"
    /\ IF senv.site # "none"
       THEN IF senv.site \in {None, ""}
            THEN /\ Raise("SiteNotSet")
                 /\ fs' = [d \in DOMAIN fs \ {env_dir(senv)} |-> fs[d]]
                 /\ UNCHANGED senv
            ELSE /\ senv' = [senv EXCEPT !.includes = Append(@, "site")]
                 /\ IF senv.site \in KnownSites
                    THEN /\ fs' = WithSite(fs, env_dir(senv))
                         /\ pc' = "site_done"
                         /\ err' = "none"
                    ELSE /\ Raise("FileNotFoundError")
                         /\ fs' = [d \in DOMAIN fs \ {env_dir(senv)} |-> fs[d]]
       ELSE /\ pc' = "site_done"
            /\ UNCHANGED <<fs, senv, err>>
    /\ UNCHANGED <<last, active, cfg, orig, writes>>
    /\ UNCHANGED readvars

\* if self.site != 'none': self._copy_site_includes()
CopySite ==
    /\ pc = "created"
    /\ IF senv.site # "none"
       THEN IF senv.site \in {None, ""}
            THEN /\ Raise("SiteNotSet")
                 /\ UNCHANGED <<fs, senv>>
            ELSE /\ senv' = [senv EXCEPT !.includes = Append(@, "site")]
                 /\ IF senv.site \in KnownSites
                    THEN /\ fs' = WithSite(fs, env_dir(senv))
                         /\ pc' = "site_done"
                         /\ err' = "none"
                    ELSE /\ Raise("FileNotFoundError")
                         /\ fs' = fs
       ELSE /\ pc' = "site_done"
            /\ UNCHANGED <<fs, senv, err>>
    /\ UNCHANGED <<last, active, cfg, orig, writes>>
    /\ UNCHANGED readvars

\* self._copy_common_includes()
CopyCommon ==
    /\ pc = "site_done"
    /\ senv' = [senv EXCEPT !.includes = Append(@, "common")]
    /\ fs' = WithCommon(fs, env_dir(senv))
    /\ pc' = "common_done"
    /\ UNCHANGED <<err, last, active, cfg, orig, writes>>
    /\ UNCHANGED readvars

\* if self.base_packages: self._copy_package_includes()
CopyPackages ==
    /\ pc = "common_done"
    /\ IF senv.base_packages \notin {None, ""}
       THEN IF senv.base_packages \in AbsFiles
            THEN /\ fs' = WithPkgs(fs, env_dir(senv))
                 /\ pc' = "includes_done"
                 /\ err' = "none"
            ELSE /\ Raise("FileNotFoundError")
                 /\ fs' = fs
       ELSE /\ pc' = "includes_done"
            /\ UNCHANGED <<fs, err>>
    /\ UNCHANGED <<senv, last, active, cfg, orig, writes>>
    /\ UNCHANGED readvars

\* env_yaml['spack']['include'] = self.includes; open(env_file, 'w')
OpenManifest ==
    /\ pc = "includes_done"
    /\ senv' = [senv EXCEPT !.env_yaml =
                  Put(@, "spack", Put(@.v["spack"], "include", List(senv.includes)))]
    /\ fs' = WithManifest(fs, env_dir(senv), EmptyFile)
    /\ pc' = "opened"
    /\ UNCHANGED <<err, last, active, cfg, orig, writes>>
    /\ UNCHANGED readvars

\* get_git_revision_short_hash(path): [err, hash]
GitOutcomes == {"ok", "fail"}
get_git_revision_short_hash(path, outcome) ==
    IF outcome = "ok"
    THEN [err |-> "none", hash |-> IF path = "stack_path" THEN "a1b2c3d" ELSE "e4f5a6b"]
    ELSE [err |-> "CalledProcessError", hash |-> None]

\* the header with both hashes, then syaml.dump_config(env_yaml, stream=f)
DumpManifest ==
    /\ pc = "opened"
    /\ \E g1 \in GitOutcomes, g2 \in GitOutcomes :
        LET stack_hash == get_git_revision_short_hash("stack_path", g1)
            spack_hash == get_git_revision_short_hash("spack_root", g2)
        IN  IF stack_hash.err # "none"
            THEN Raise(stack_hash.err) /\ UNCHANGED <<fs, writes>>
            ELSE IF spack_hash.err # "none"
            THEN Raise(spack_hash.err) /\ UNCHANGED <<fs, writes>>
            ELSE /\ fs' = WithManifest(fs, env_dir(senv),
                            YamlFile(senv.env_yaml, <<stack_hash.hash, spack_hash.hash>>))
                 /\ writes' = writes + 1
                 /\ pc' = "dumped"
                 /\ err' = "none"
    /\ UNCHANGED <<senv, last, active, cfg, orig>>
    /\ UNCHANGED readvars

(***************************************************************************)
(* The Spack library as this module uses it: the configuration scope of    *)
(* the active environment, and the environment's load and write.           *)
(***************************************************************************)
\* spack.config.section_schemas.keys()
Sections == {"packages", "config", "modules"}
SectionOrder == <<"packages", "config", "modules">>

\* spack.config.get(section, scope=env_scope): the section under its name
ConfigGet(c, section) ==
    IF Has(c, section) THEN Map(section :> c.v[section]) ELSE EmptyMap

\* spack.config.set(section, value, env_scope)
ConfigSet(c, section, value) == Put(c, section, value)

\* one component of a configuration path; "key::" is an override key
Key(k) == [k |-> k, override |-> FALSE]
OverrideKey(k) == [k |-> k, override |-> TRUE]

\* spack.config.add(path: value): value is merged in at the path; what an
\* override key held before is replaced, not merged
RECURSIVE ConfigAdd(_, _, _)
ConfigAdd(d, path, value) ==
    IF path = <<>> THEN merge_yaml(d, value)
    ELSE LET key == Head(path)
             base == IF IsMap(d) THEN d ELSE EmptyMap
             below == IF Has(base, key.k) /\ ~key.override
                      THEN base.v[key.k] ELSE EmptyMap
         IN  Put(base, key.k, ConfigAdd(below, Tail(path), value))

\* ev.Environment(path=env_dir, init_file=env_file): the spack: mapping of the file
EnvironmentLoad(file) ==
    IF file.kind = "yaml" /\ Has(file.doc, "spack") THEN file.doc.v["spack"] ELSE EmptyMap

\* env.write(): the environment's configuration, serialised under spack:
EnvironmentWrite(c, file) == YamlFile(Map("spack" :> c), file.header)

(***************************************************************************)
(* StackEnv.write(), from the activation on                                *)
(***************************************************************************)
\* env = ev.Environment(...); ev.activate(env)
Activate ==
    /\ pc = "dumped"
    /\ cfg' = EnvironmentLoad(fs[env_dir(senv)].manifest)
    /\ active' = env_dir(senv)
    /\ pc' = "activated"
    /\ UNCHANGED <<fs, senv, err, last, orig, writes>>
    /\ UNCHANGED readvars

\* 'packages:all::compiler:[{}]'
CompilerPath == <<Key("packages"), OverrideKey("all"), Key("compiler")>>
\* 'packages:all::providers:mpi:[{}]'
MpiPath == <<Key("packages"), OverrideKey("all"), Key("providers"), Key("mpi")>>
\* 'config:install_tree:root:{}'
InstallTreePath == <<Key("config"), Key("install_tree"), Key("root")>>
\* 'modules:default:roots:lmod:{}' and 'modules:default:roots:tcl:{}'
LmodPath == <<Key("modules"), Key("default"), Key("roots"), Key("lmod")>>
TclPath == <<Key("modules"), Key("default"), Key("roots"), Key("tcl")>>

\* os.path.join(self.install_prefix, "modulefiles")
ModulePrefix(prefix) == IF prefix = "/opt" THEN "/opt/modulefiles" ELSE "modulefiles"

WithCompiler(c, o) ==
    IF o.compiler \notin {None, ""}
    THEN ConfigAdd(c, CompilerPath, List(<<o.compiler>>)) ELSE c

WithMpi(c, o) ==
    IF o.mpi \notin {None, ""}
    THEN ConfigAdd(c, MpiPath, List(<<o.mpi>>)) ELSE c

WithPrefix(c, o) ==
    IF o.install_prefix \notin {None, ""}
    THEN ConfigAdd(
           ConfigAdd(
             ConfigAdd(c, InstallTreePath, Scalar(o.install_prefix)),
             LmodPath, Scalar(ModulePrefix(o.install_prefix))),
           TclPath, Scalar(ModulePrefix(o.install_prefix)))
    ELSE c

\* the snapshot taken from the configuration the overrides were applied to
SnapshotAfterOverrides ==
    /\ pc = "activated"
    /\ LET c == WithPrefix(WithMpi(WithCompiler(cfg, senv), senv), senv)
       IN  orig' = [key \in {k \in Sections : Truthy(ConfigGet(c, k))} |->
                      ConfigGet(c, key)]
    /\ pc' = "snapshotted"
    /\ UNCHANGED <<fs, senv, err, last, active, cfg, writes>>
    /\ UNCHANGED readvars

\* original_sections: a copy of every section that is not empty
Snapshot ==
    /\ pc = "activated"
    /\ orig' = [key \in {k \in Sections : Truthy(ConfigGet(cfg, k))} |->
                  ConfigGet(cfg, key)]
    /\ pc' = "snapshotted"
    /\ UNCHANGED <<fs, senv, err, last, active, cfg, writes>>
    /\ UNCHANGED readvars

\* the commonly used config settings: compiler, then mpi, then install_prefix
ApplyOverrides ==
    /\ pc = "snapshotted"
    /\ cfg' = WithPrefix(WithMpi(WithCompiler(cfg, senv), senv), senv)
    /\ pc' = "overridden"
    /\ UNCHANGED <<fs, senv, err, last, active, orig, writes>>
    /\ UNCHANGED readvars

\* one turn of the loop that merges the original sections back in
RemergeSection(c, section) ==
    LET original == IF section \in DOMAIN orig THEN orig[section] ELSE EmptyMap
        existing == ConfigGet(c, section)
        new == merge_yaml(existing, original)
    IN  IF Has(existing, section) THEN ConfigSet(c, section, new.v[section]) ELSE c

RECURSIVE RemergeAll(_, _)
RemergeAll(c, sections) ==
    IF sections = <<>> THEN c
    ELSE RemergeAll(RemergeSection(c, Head(sections)), Tail(sections))

Remerge ==
    /\ pc = "overridden"
    /\ cfg' = RemergeAll(cfg, SectionOrder)
    /\ pc' = "remerged"
    /\ UNCHANGED <<fs, senv, err, last, active, orig, writes>>
    /\ UNCHANGED readvars

\* what writing a file, or validating a setting, can come to
IoOutcomes == {"ok", "fail"}

\* with env.write_transaction(): env.write(); an exception of the library
\* leaves write() here, past the ev.activate() and before the ev.deactivate():
\* no try/finally stands around lines 174-216.  The locals of write()
\* (original_sections, and env with its configuration scope, which the next
\* activation loads anew) go with the frame; the activation stays.
EnvWrite ==
    /\ pc = "remerged"
    /\ \E io \in IoOutcomes :
          IF io = "fail"
          THEN /\ Raise("OSError")
               /\ orig' = <<>>
               /\ cfg' = EmptyMap
               /\ UNCHANGED <<fs, writes>>
          ELSE /\ fs' = WithManifest(fs, env_dir(senv),
                                     EnvironmentWrite(cfg, fs[env_dir(senv)].manifest))
               /\ writes' = writes + 1
               /\ pc' = "written"
               /\ UNCHANGED <<err, orig, cfg>>
    /\ UNCHANGED <<senv, last, active>>
    /\ UNCHANGED readvars

\* ev.deactivate(), and write() returns
Deactivate ==
    /\ pc = "written"
    /\ active' = NoEnv
    /\ cfg' = EmptyMap
    /\ orig' = <<>>
    /\ pc' = "done"
    /\ UNCHANGED <<fs, senv, err, last, writes>>
    /\ UNCHANGED readvars

(***************************************************************************)
(* StackContainer                                                          *)
(***************************************************************************)
ContainerArgs == {"ctr", "bare", "bogus", "/c.yaml", "/missing"}
ContainerTemplateArgs == {"app", "/t", "bogus", "/missing", "/t/spack.yaml"}
ContainerPinsArgs == {"/pins.yaml", "/pins2.yaml", "/missing"}

\* StackContainer.__init__, the container part: [err, path]
ResolveContainer(container) ==
    IF ExistsUnderContainers(container)
    THEN [err |-> "none", path |-> <<"container_path", container, ".yaml">>]
    ELSE IF IsAbs(container)
    THEN [err |-> "none", path |-> <<container>>]
    ELSE [err |-> "InvalidContainer", path |-> <<>>]

\* StackContainer.__init__, the template part: [err, path]
ResolveTemplate(template) ==
    IF IsAbs(template)
    THEN [err |-> "none", path |-> <<template>>]
    ELSE IF ExistsUnderTemplates(template)
    THEN [err |-> "none", path |-> Join(<<"template_path">>, template)]
    ELSE [err |-> "InvalidTemplate", path |-> <<>>]

\* StackContainer.__init__, the rest of the fields
NewStackContainer(kw, c, t) ==
    [live |-> TRUE,
     class |-> "StackContainer",
     template |-> kw.template,
     container |-> kw.container,
     container_path |-> c.path,
     template_path |-> t.path,
     name |-> IF kw.name \in {None, ""}
              THEN Format(kw.template, kw.container) ELSE <<kw.name>>,
     dir |-> kw.dir,
     base_packages |-> kw.base_packages]

\* the arguments tried: every document of the container, of the template and
\* of the pins together, and each failing argument once
ContainerKwargs ==
    {kw \in [container : ContainerArgs, template : ContainerTemplateArgs,
             name : NameArgs, dir : DirArgs, base_packages : ContainerPinsArgs] :
        /\ kw.container \in {"bare", "bogus", "/missing"}
              => kw.template = "app" /\ kw.base_packages = "/pins.yaml"
        /\ kw.template \in {"bogus", "/missing", "/t/spack.yaml"}
              => kw.container = "ctr" /\ kw.base_packages = "/pins.yaml"
        /\ kw.base_packages = "/missing" => kw.container = "ctr" /\ kw.template = "app"
        /\ kw.name = None
              => kw.container = "ctr" /\ kw.template = "app"
                 /\ kw.base_packages = "/pins.yaml"}

StackContainerInit ==
    /\ Quiet
    /\ \E kw \in ContainerKwargs :
        LET c == ResolveContainer(kw.container)
            t == ResolveTemplate(kw.template)
        IN  /\ last' = [op |-> "StackContainer", id |-> kw.template,
                        container |-> kw.container]
            /\ err' = IF c.err # "none" THEN c.err ELSE t.err
            /\ senv' = IF c.err = "none" /\ t.err = "none"
                       THEN NewStackContainer(kw, c, t) ELSE NoObj
    /\ pc' = "idle"
    /\ UNCHANGED <<fs, active, cfg, orig, writes>>
    /\ UNCHANGED readvars

\* filedata.replace('::', ':') as the loaded document shows it: a key written
\* "name::" in the file loads as "name", not as the override key "name:"
StripKey(k) == IF k = "mpich:" THEN "mpich" ELSE IF k = "all:" THEN "all" ELSE k

RECURSIVE StripOverride(_)
StripOverride(doc) ==
    IF doc.t = "m"
    THEN Map([k \in {StripKey(j) : j \in DOMAIN doc.v} |->
                StripOverride(doc.v[CHOOSE j \in DOMAIN doc.v : StripKey(j) = k])])
    ELSE doc

\* the merges without the last one: the original document is not merged back
MergedContainerNoOriginal(container_yaml, packages_yaml, template_yaml, original_yaml) ==
    LET spack == container_yaml.v["spack"]
        with_packages == IF Has(spack, "packages") THEN spack
                         ELSE Put(spack, "packages", EmptyMap)
        pinned == Put(container_yaml, "spack",
                      Put(with_packages, "packages",
                          merge_yaml(with_packages.v["packages"],
                                     packages_yaml.v["packages"])))
    IN  merge_yaml(pinned, template_yaml)

\* the merges with the pins merged in after the app template, not before
MergedContainerPinsLast(container_yaml, packages_yaml, template_yaml, original_yaml) ==
    LET templated == merge_yaml(container_yaml, template_yaml)
        spack == templated.v["spack"]
        with_packages == IF Has(spack, "packages") THEN spack
                         ELSE Put(spack, "packages", EmptyMap)
        pinned == Put(templated, "spack",
                      Put(with_packages, "packages",
                          merge_yaml(with_packages.v["packages"],
                                     packages_yaml.v["packages"])))
    IN  merge_yaml(pinned, original_yaml)

\* the three merges of StackContainer.write(): pins into the container's
\* packages, then the app template, then the original container document
MergedContainer(container_yaml, packages_yaml, template_yaml, original_yaml) ==
    LET spack == container_yaml.v["spack"]
        with_packages == IF Has(spack, "packages") THEN spack
                         ELSE Put(spack, "packages", EmptyMap)
        pinned == Put(container_yaml, "spack",
                      Put(with_packages, "packages",
                          merge_yaml(with_packages.v["packages"],
                                     packages_yaml.v["packages"])))
    IN  merge_yaml(merge_yaml(pinned, template_yaml), original_yaml)

\* container_yaml['spack']['container']['labels']['app'] = self.template
HasLabels(doc) == Defines(doc, <<"spack", "container", "labels">>)
WithAppLabel(doc, template) ==
    LET spack == doc.v["spack"]
        container == spack.v["container"]
    IN  Put(doc, "spack",
            Put(spack, "container",
                Put(container, "labels",
                    Put(container.v["labels"], "app", Scalar(template)))))

\* the manifest StackContainer.write() computes: [err, doc]
ContainerManifest(o) ==
    LET template_yaml == ReadYaml(Join(o.template_path, "spack.yaml"))
        container_yaml == ReadYaml(o.container_path)
        packages_yaml == ReadYaml(<<o.base_packages>>)
        merged == MergedContainer(container_yaml.doc, StripOverride(packages_yaml.doc),
                                  StripOverride(template_yaml.doc), container_yaml.doc)
    IN  IF template_yaml.err # "none" THEN Raised(template_yaml.err)
        ELSE IF container_yaml.err # "none" THEN Raised(container_yaml.err)
        ELSE IF packages_yaml.err # "none" THEN Raised(packages_yaml.err)
        ELSE IF ~Has(container_yaml.doc, "spack") THEN Raised("KeyError")
        ELSE IF ~Has(packages_yaml.doc, "packages") THEN Raised("KeyError")
        ELSE IF ~HasLabels(merged) THEN Raised("KeyError")
        ELSE Loaded(WithAppLabel(merged, o.template))

\* StackContainer.env_dir
container_env_dir(o) == <<o.dir>> \o o.name

\* StackContainer.write()
ContainerWrite ==
    /\ Quiet
    /\ senv.class = "StackContainer"
    /\ last' = [op |-> "StackContainer.write", id |-> senv.template,
                container |-> senv.container]
    /\ LET m == ContainerManifest(senv) IN
        /\ err' = m.err
        /\ IF m.err # "none"
           THEN /\ pc' = "failed"
                /\ fs' = fs
           ELSE /\ pc' = "done"
                /\ fs' = WithManifest(MakeDirs(fs, container_env_dir(senv)),
                                      container_env_dir(senv), YamlFile(m.doc, <<>>))
    /\ writes' = 0
    /\ UNCHANGED <<senv, active, cfg, orig>>
    /\ UNCHANGED readvars

InitObjects ==
    /\ fs = <<>>
    /\ senv = NoObj
    /\ pc = "idle"
    /\ err = "none"
    /\ last = [op |-> "none", id |-> None, container |-> None]
    /\ active = NoEnv
    /\ cfg = EmptyMap
    /\ orig = <<>>
    /\ writes = 0

(***************************************************************************)
(* The reading of the app template and of the base-packages file in        *)
(* StackContainer.write(): the text of the file, character by character.   *)
(***************************************************************************)
MaxLen == 5
Alphabet == {":", "a"}
Texts == UNION {[1..n -> Alphabet] : n \in 0..MaxLen}

\* str.replace(old, new): the occurrences of old that do not overlap, found
\* from the left, each replaced by new
RECURSIVE replace(_, _, _)
replace(str, old, new) ==
    IF Len(str) < Len(old) THEN str
    ELSE IF SubSeq(str, 1, Len(old)) = old
    THEN new \o replace(SubSeq(str, Len(old) + 1, Len(str)), old, new)
    ELSE <<Head(str)>> \o replace(Tail(str), old, new)

\* filedata = f.read()
ReadFile ==
    /\ stage = "opened"
    /\ filedata' = text
    /\ stage' = "read"
    /\ UNCHANGED <<reading, text>>
    /\ UNCHANGED objvars

\* filedata.replace('::', ':'), the result dropped (the app template only)
ReplaceDiscarded ==
    /\ stage = "read"
    /\ reading = "app_env"
    /\ replace(filedata, <<":", ":">>, <<":">>) \in Seq(Alphabet)
    /\ stage' = "replace_discarded"
    /\ UNCHANGED <<reading, text, filedata>>
    /\ UNCHANGED objvars

\* filedata = filedata.replace('::', ':')
ReplaceAssigned ==
    /\ \/ stage = "replace_discarded"
       \/ stage = "read" /\ reading = "base_packages"
    /\ filedata' = replace(filedata, <<":", ":">>, <<":">>)
    /\ stage' = "replaced"
    /\ UNCHANGED <<reading, text>>
    /\ UNCHANGED objvars

\* syaml.load_config(filedata)
LoadConfig ==
    /\ stage = "replaced"
    /\ stage' = "loaded"
    /\ UNCHANGED <<reading, text, filedata>>
    /\ UNCHANGED objvars

InitRead ==
    /\ InitObjects
    /\ reading \in {"app_env", "base_packages"}
    /\ text \in Texts
    /\ filedata = <<>>
    /\ stage = "opened"

NextRead ==
    \/ ReadFile
    \/ ReplaceDiscarded
    \/ ReplaceAssigned
    \/ LoadConfig

SpecRead == InitRead /\ [][NextRead]_vars

Init ==
    /\ InitObjects
    /\ reading = "none"
    /\ text = <<>>
    /\ filedata = <<>>
    /\ stage = "closed"

Next ==
    \/ StackEnvInit
    \/ WriteBegin
    \/ CopySite
    \/ CopyCommon
    \/ CopyPackages
    \/ OpenManifest
    \/ DumpManifest
    \/ Activate
    \/ Snapshot
    \/ ApplyOverrides
    \/ Remerge
    \/ EnvWrite
    \/ Deactivate
    \/ StackContainerInit
    \/ ContainerWrite

Spec == Init /\ [][Next]_vars

(***************************************************************************)
(* Properties                                                              *)
(***************************************************************************)
CompilerAt == <<"spack", "packages", "all", "compiler">>
MpiAt == <<"spack", "packages", "all", "providers", "mpi">>
IncludeAt == <<"spack", "include">>
InstallRootAt == <<"spack", "config", "install_tree", "root">>

\* a StackEnv.write() has just returned normally
EnvWritten == pc = "done" /\ senv.class = "StackEnv"
\* a StackContainer.write() has just returned normally
ContainerWritten == pc = "done" /\ senv.class = "StackContainer"

\* the manifest in the environment directory of the current object
EnvManifest == fs[env_dir(senv)].manifest
\* the template as it is on disk
TemplateOnDisk == LoadTemplate(senv.template).doc

\* C1: when the template sets packages:all:compiler and the compiler option
\* names another compiler, the final manifest of a successful StackEnv.write()
\* holds exactly the template's value at packages:all:compiler.
C1_TemplateCompilerKept ==
    (/\ EnvWritten
     /\ senv.compiler \notin {None, ""}
     /\ Defines(TemplateOnDisk, CompilerAt)
     /\ Lookup(TemplateOnDisk, CompilerAt) # List(<<senv.compiler>>))
        => Lookup(EnvManifest.doc, CompilerAt) = Lookup(TemplateOnDisk, CompilerAt)

\* C2: after a successful StackEnv.write() the include list of the manifest is
\* exactly the names of the copied include directories, in order, and a
\* StackEnv without a site is written successfully with the list ['common'].
C2_IncludesAreTheCopiedOnes ==
    /\ EnvWritten =>
          Lookup(EnvManifest.doc, IncludeAt) =
             List((IF fs[env_dir(senv)].site THEN <<"site">> ELSE <<>>)
                  \o (IF fs[env_dir(senv)].common THEN <<"common">> ELSE <<>>))
    /\ (senv.class = "StackEnv" /\ senv.site = None /\ last.op = "StackEnv.write")
          => err \in {"none", "AlreadyExists"}

\* C3: a StackEnv.write() that finds its environment directory on disk raises
\* the already-exists error and leaves the filesystem and the active
\* environment as they were.
C3_ExistingDirectoryUntouched ==
    [][(/\ Quiet
        /\ senv.class = "StackEnv"
        /\ last'.op = "StackEnv.write"
        /\ env_dir(senv) \in DOMAIN fs)
          => (fs' = fs /\ err' = "AlreadyExists" /\ pc' = "failed" /\ active' = active)]_vars

\* C3 witness: a write() refused over a directory that holds a whole manifest.
C3_Witness ==
    /\ senv.class = "StackEnv"
    /\ pc = "failed"
    /\ err = "AlreadyExists"
    /\ last.op = "StackEnv.write"
    /\ fs[env_dir(senv)].manifest.kind = "yaml"

\* an identifier the constructors are meant to accept: the absolute path of
\* something that exists, or a known name
ValidTemplateId(t) == IF IsAbs(t) THEN t \in AbsFiles \cup AbsDirs ELSE t \in KnownTemplates
ValidContainerId(c) == IF IsAbs(c) THEN c \in AbsFiles \cup AbsDirs ELSE c \in KnownContainers

\* C4: a template or container identifier that is neither the absolute path
\* of something that exists nor a known name makes the constructor raise its
\* invalid-identifier error.
C4_InvalidIdentifierRejected ==
    /\ (last.op = "StackEnv" /\ last.id \notin {None, ""} /\ ~ValidTemplateId(last.id))
          => err = "TemplateDoesNotExist"
    /\ (last.op = "StackContainer" /\ ~ValidContainerId(last.container))
          => err = "InvalidContainer"
    /\ (last.op = "StackContainer" /\ ValidContainerId(last.container)
        /\ ~ValidTemplateId(last.id))
          => err = "InvalidTemplate"

\* the paths of a document that end in a scalar or a list
RECURSIVE LeafPaths(_)
LeafPaths(d) ==
    IF d.t = "m"
    THEN UNION {{<<k>> \o q : q \in LeafPaths(d.v[k])} : k \in DOMAIN d.v}
    ELSE {<<>>}

IsPrefix(a, b) == Len(a) <= Len(b) /\ SubSeq(b, 1, Len(a)) = a
Same(x, y) == x.t = y.t /\ x.v = y.v

\* the three documents StackContainer.write() reads, as it loads them
ContainerOnDisk == ReadYaml(senv.container_path).doc
AppTemplateOnDisk == StripOverride(ReadYaml(Join(senv.template_path, "spack.yaml")).doc)
PinsOnDisk == StripOverride(ReadYaml(<<senv.base_packages>>).doc)
ContainerOutput == fs[container_env_dir(senv)].manifest.doc

AppLabelAt == <<"spack", "container", "labels", "app">>
PackagesAt == <<"spack", "packages">>

\* C5 as claimed: every scalar or list the original container document holds
\* is, at the same key, the value of the manifest StackContainer.write() wrote.
C5_OriginalValuesExact ==
    ContainerWritten =>
        \A q \in LeafPaths(ContainerOnDisk) :
            Same(Lookup(ContainerOutput, q), Lookup(ContainerOnDisk, q))

\* C5: in the manifest StackContainer.write() wrote, every scalar of the
\* original container document other than spack:container:labels:app has the
\* original's value, every list of the original document is the beginning of
\* the list written, and spack:container:labels:app is the template argument.
C5_OriginalWinsButAppLabel ==
    ContainerWritten =>
        /\ Same(Lookup(ContainerOutput, AppLabelAt), Scalar(senv.template))
        /\ \A q \in LeafPaths(ContainerOnDisk) \ {AppLabelAt} :
              LET was == Lookup(ContainerOnDisk, q)
                  is == Lookup(ContainerOutput, q)
              IN  IF was.t = "s" THEN Same(is, was)
                  ELSE is.t = "l" /\ IsPrefix(was.v, is.v)

\* C5 witness: written from a container document whose app label, packages
\* and specs all meet other values in the app template and the pins.
C5_Witness ==
    /\ ContainerWritten
    /\ senv.container = "ctr"
    /\ senv.template = "app"
    /\ senv.base_packages = "/pins.yaml"
    /\ Same(Lookup(ContainerOutput, <<"spack", "packages", "hdf5", "variants">>),
            Scalar("~mpi"))

\* C6 as claimed: the packages section written is the deep merge of the pin
\* document's packages and the template's packages, the template winning.
C6_PackagesAreTemplateOverPins ==
    ContainerWritten =>
        Lookup(ContainerOutput, PackagesAt)
           = merge_yaml(Lookup(PinsOnDisk, <<"packages">>),
                        Lookup(AppTemplateOnDisk, PackagesAt))

\* the value the highest of the documents (container, then template, then
\* pins) that defines q under its packages holds there
Winner(q) ==
    IF Defines(ContainerOnDisk, PackagesAt \o q)
    THEN Lookup(ContainerOnDisk, PackagesAt \o q)
    ELSE IF Defines(AppTemplateOnDisk, PackagesAt \o q)
    THEN Lookup(AppTemplateOnDisk, PackagesAt \o q)
    ELSE Lookup(PinsOnDisk, <<"packages">> \o q)

PackageLeaves ==
    LeafPaths(Lookup(ContainerOnDisk, PackagesAt))
       \cup LeafPaths(Lookup(AppTemplateOnDisk, PackagesAt))
       \cup LeafPaths(Lookup(PinsOnDisk, <<"packages">>))

\* C6: in the manifest StackContainer.write() wrote, every packages key has
\* the scalar of the highest document that defines it, in the order original
\* container document, app template, pin document (a list starts with that
\* document's list): the template beats the pins wherever the container
\* document is silent, keys of the pins alone keep the pins' value, and no
\* other key appears.  StackEnv.write() leaves the pins out of the manifest:
\* with no compiler and mpi option its packages are the template's.
C6_PackagesByPrecedence ==
    /\ ContainerWritten =>
          /\ LeafPaths(Lookup(ContainerOutput, PackagesAt)) = PackageLeaves
          /\ \A q \in PackageLeaves :
                LET is == Lookup(ContainerOutput, PackagesAt \o q)
                IN  IF Winner(q).t = "s" THEN Same(is, Winner(q))
                    ELSE is.t = "l" /\ IsPrefix(Winner(q).v, is.v)
    /\ (EnvWritten /\ senv.compiler = None /\ senv.mpi = None) =>
          Lookup(EnvManifest.doc, PackagesAt) = Lookup(TemplateOnDisk, PackagesAt)

\* C6 witness: written from a container document without packages, so that
\* the template's zlib variants met the pins' and the pins' netcdf stood alone.
C6_Witness ==
    /\ ContainerWritten
    /\ senv.container = "/c.yaml"
    /\ senv.template = "app"
    /\ senv.base_packages = "/pins.yaml"
    /\ Same(Lookup(ContainerOutput, PackagesAt \o <<"zlib", "variants">>), Scalar("+pic"))
    /\ Same(Lookup(ContainerOutput, PackagesAt \o <<"netcdf", "variants">>), Scalar("+dap"))

\* C7: on a template that defines neither packages:all:compiler nor
\* packages:all:providers:mpi, after a successful StackEnv.write() every
\* option given holds its singleton list in the manifest, both when both are.
C7_OverridesBothPresent ==
    (/\ EnvWritten
     /\ ~Defines(TemplateOnDisk, CompilerAt)
     /\ ~Defines(TemplateOnDisk, MpiAt))
        => /\ senv.compiler \notin {None, ""}
                => Same(Lookup(EnvManifest.doc, CompilerAt), List(<<senv.compiler>>))
           /\ senv.mpi \notin {None, ""}
                => Same(Lookup(EnvManifest.doc, MpiAt), List(<<senv.mpi>>))

\* C8: when a revision hash cannot be obtained, StackEnv.write() fails with
\* that error and the environment directory holds no spack.yaml, neither an
\* empty nor a partial one.
C8_NoManifestAfterHashFailure ==
    (senv.class = "StackEnv" /\ pc = "failed" /\ err = "CalledProcessError")
        => EnvManifest.kind = "none"

\* C9: a StackContainer.write() that finds its environment directory on disk
\* fails and leaves the spack.yaml of the earlier write as it is.
C9_ContainerWrittenOnce ==
    [][(/\ Quiet
        /\ senv.class = "StackContainer"
        /\ last'.op = "StackContainer.write"
        /\ container_env_dir(senv) \in DOMAIN fs)
          => (fs' = fs /\ pc' = "failed")]_vars

\* the positions of StackEnv.write() between its first and its last statement
Running == pc \notin {"idle", "done", "failed"}

\* C10 as claimed: while StackEnv.write() runs there is no spack.yaml in the
\* environment directory until the overrides are applied and the original
\* sections merged back, and the manifest is written once.
C10_ManifestOnlyAtTheEnd ==
    /\ (senv.class = "StackEnv" /\ Running /\ pc # "written")
          => EnvManifest.kind = "none"
    /\ writes <= 1

\* the sections of the manifest as dumped before the activation
DumpedSections ==
    [key \in {k \in Sections : Has(senv.env_yaml.v["spack"], k)} |->
        Map(key :> senv.env_yaml.v["spack"].v[key])]

\* C10: in every run of StackEnv.write() the site include is copied before
\* the common include, the base-packages file only into an existing common
\* directory, the snapshot of the original sections holds the sections as
\* they were before any override, and spack.yaml is written twice: first
\* with the include list, after the includes are copied and before the
\* environment is activated, then again after the overrides are applied and
\* the original sections merged back.
C10_StageOrder ==
    (senv.class = "StackEnv" /\ (Running \/ pc = "done")) =>
        LET d == fs[env_dir(senv)] IN
        /\ d.common => d.site
        /\ d.pkgs => d.common
        /\ pc \in {"created", "site_done", "common_done", "includes_done"}
              => d.manifest.kind = "none" /\ writes = 0
        /\ pc = "opened" => d.manifest.kind = "empty" /\ writes = 0 /\ d.common
        /\ pc \in {"dumped", "activated", "snapshotted", "overridden", "remerged"}
              => /\ writes = 1
                 /\ d.manifest = YamlFile(senv.env_yaml, d.manifest.header)
        /\ pc \in {"snapshotted", "overridden", "remerged", "written"}
              => orig = DumpedSections
        /\ pc \in {"activated", "snapshotted", "overridden", "remerged", "written"}
              => active = env_dir(senv)
        /\ pc = "done" => active = NoEnv
        /\ pc \in {"written", "done"}
              => /\ writes = 2
                 /\ senv.mpi \notin {None, ""} => Defines(d.manifest.doc, MpiAt)
                 /\ senv.install_prefix \notin {None, ""}
                       => Defines(d.manifest.doc, InstallRootAt)

\* C10 witness: a run that copied both includes and the base-packages file,
\* applied a compiler override and has written the manifest the second time.
C10_Witness ==
    /\ senv.class = "StackEnv"
    /\ pc = "written"
    /\ writes = 2
    /\ fs[env_dir(senv)].pkgs
    /\ senv.compiler = "intel"
    /\ "packages" \in DOMAIN orig

\* C11: whenever no StackEnv.write() is running, after a normal return as
\* after an error raised past the activation, no environment is active:
\* every run of write() has deactivated the environment it activated.
C11_NothingActiveOutsideWrite ==
    Quiet => active = NoEnv

\* C12: StackEnv.write() undoes nothing.  No step removes a directory, a
\* copied include or a manifest from the disk; a step with which write()
\* fails after the environment directory was created leaves the filesystem
\* as it stood, the directory included; and every StackEnv.write() that
\* starts over an environment directory found on disk fails with the
\* already-exists error and changes nothing, so the environment is never
\* completed.
C12_NoRollbackNoRetry ==
    [][/\ \A d \in DOMAIN fs :
             /\ d \in DOMAIN fs'
             /\ fs[d].site => fs'[d].site
             /\ fs[d].common => fs'[d].common
             /\ fs[d].pkgs => fs'[d].pkgs
             /\ fs[d].manifest.kind # "none" => fs'[d].manifest.kind # "none"
       /\ (senv.class = "StackEnv" /\ Running /\ pc' = "failed")
             => (fs' = fs /\ env_dir(senv) \in DOMAIN fs')
       /\ (/\ Quiet
           /\ senv.class = "StackEnv"
           /\ last'.op = "StackEnv.write"
           /\ env_dir(senv) \in DOMAIN fs)
             => (err' = "AlreadyExists" /\ pc' = "failed" /\ fs' = fs)]_vars

\* C12 witness: a write() refused over the bare directory that an earlier
\* write() left when it failed for want of a site.
C12_Witness ==
    /\ senv.class = "StackEnv"
    /\ senv.site = None
    /\ pc = "failed"
    /\ err = "AlreadyExists"
    /\ last.op = "StackEnv.write"
    /\ ~fs[env_dir(senv)].site
    /\ fs[env_dir(senv)].manifest.kind = "none"

\* some '::' stands in the text
HasMarker(str) == \E i \in 1..(Len(str) - 1) : str[i] = ":" /\ str[i + 1] = ":"

\* C13: the text handed to the YAML loader, for the app template as for the
\* base-packages file, holds no '::', stripping it once more would not
\* change it, and it is the text of the file with replace applied once (the
\* replace whose result is dropped changes nothing).
C13_StrippedOnceAndForAll ==
    stage = "loaded" =>
        /\ ~HasMarker(filedata)
        /\ replace(filedata, <<":", ":">>, <<":">>) = filedata
        /\ filedata = replace(text, <<":", ":">>, <<":">>)

====
